---- MODULE Spec2Model ----
\* CNIOExtrasZlib.h: three static inline functions over zlib.
\*
\*   CNIOExtrasZlib_deflateInit2         calls deflateInit2    (lines 19-26)
\*   CNIOExtrasZlib_inflateInit2         calls inflateInit2    (lines 28-30)
\*   CNIOExtrasZlib_voidPtr_to_BytefPtr  casts void* to Bytef* (lines 32-34)
\*
\* zlib itself is an external library.  It is modelled as an environment:
\* the result code of a call is chosen by the environment among the codes
\* zlib.h documents for the call, and the z_stream is left as zlib.h says
\* for that code.  The body of each function is modelled by what it does:
\* the zlib calls it makes (with their argument lists), the stores it
\* performs itself, and the value it returns.
EXTENDS Integers, Sequences, FiniteSets, TLC

\* ---------------------------------------------------------------- state

VARIABLES
    mem,      \* address of a z_stream -> the state zlib keeps in it
    history   \* the calls made into the shim so far, oldest first

vars == << mem, history >>

\* ------------------------------------------------------------------ bounds

\* z_stream objects live at addresses 1..MaxStreams; address 0 is Z_NULL.
MaxStreams == 2
\* Number of calls into the shim that one behaviour makes (length of history).
MaxCalls == 2

\* ------------------------------------------------- zlib.h names (line 17)

Z_NULL == 0
Z_OK == 0
Z_STREAM_ERROR == -2
Z_MEM_ERROR == -4
Z_VERSION_ERROR == -6

\* Addresses a caller can pass: Z_NULL and the addresses of the z_streams.
Addrs == 0..MaxStreams

\* Representative values of the int parameters.  The sets are pairwise
\* disjoint, so that an argument that lands in another parameter's position
\* is seen, and windowBits has negative (raw deflate) and positive values.
Levels == {-1, 9}
Methods == {8}
WindowBitsSet == {-15, 31}
MemLevels == {6}
Strategies == {4}

\* ------------------------------------------------------------ zlib (env)

\* The argument list zlib's deflateInit2 receives.
deflateInit2(strm, level, method, windowBits, memLevel, strategy) == [fn |-> "deflateInit2", strm |-> strm, level |-> level, method |-> method, windowBits |-> windowBits, memLevel |-> memLevel, strategy |-> strategy]

\* The argument list zlib's inflateInit2 receives.
inflateInit2(strm, windowBits) == [fn |-> "inflateInit2", strm |-> strm, windowBits |-> windowBits]

\* The result codes zlib can give an initialisation call on strm: a null
\* stream is never initialised and needs no memory.
ZlibResults(strm) ==
    IF strm = Z_NULL THEN {Z_STREAM_ERROR, Z_VERSION_ERROR}
    ELSE {Z_OK, Z_STREAM_ERROR, Z_MEM_ERROR, Z_VERSION_ERROR}

\* The streams as one zlib call leaves them, given the result code it gives:
\* on Z_OK the stream holds a deflate or inflate state, on Z_MEM_ERROR no
\* state (state = Z_NULL), on the other codes it is untouched.
ZlibLeaves(m, call, zret) ==
    IF call.strm \notin DOMAIN m THEN m
    ELSE IF call.fn = "deflateEnd" THEN [m EXCEPT ![call.strm] = "Z_NULL"]
    ELSE IF zret = Z_OK
         THEN [m EXCEPT ![call.strm] = IF call.fn = "deflateInit2" THEN "deflate" ELSE "inflate"]
    ELSE IF zret = Z_MEM_ERROR THEN [m EXCEPT ![call.strm] = "Z_NULL"]
    ELSE m

\* The streams after a sequence of zlib calls, made in order.
RECURSIVE ZlibRun(_, _, _)
ZlibRun(m, calls, zret) ==
    IF calls = << >> THEN m
    ELSE ZlibRun(ZlibLeaves(m, Head(calls), zret), Tail(calls), zret)

\* The streams after the stores a function body performs itself.
RECURSIVE Store(_, _)
Store(m, stores) ==
    IF stores = << >> THEN m
    ELSE Store([m EXCEPT ![Head(stores).addr] = Head(stores).value], Tail(stores))

\* ------------------------------------------------------------- the shim

\* The body of a function is modelled by its effects, in program order:
\*   calls   the zlib calls it makes, each with the argument list it passes
\*   loads   the addresses it dereferences itself
\*   stores  the stores it performs itself
\*   ret     the value it returns
\* zret is the value zlib returns to the call the body makes.

Mut_deflateInit2_MapsErrors(strm, level, method, windowBits, memLevel, strategy, zret) ==
    [calls  |-> << deflateInit2(strm, level, method, windowBits, memLevel, strategy) >>,
     loads  |-> {},
     stores |-> << >>,
     ret    |-> IF zret = Z_OK THEN Z_OK ELSE Z_STREAM_ERROR]

Mut_deflateInit2_AbsWindowBits(strm, level, method, windowBits, memLevel, strategy, zret) ==
    [calls  |-> << deflateInit2(strm, level, method,
                                IF windowBits < 0 THEN -windowBits ELSE windowBits,
                                memLevel, strategy) >>,
     loads  |-> {},
     stores |-> << >>,
     ret    |-> zret]

Mut_deflateInit2_CleansUp(strm, level, method, windowBits, memLevel, strategy, zret) ==
    [calls  |-> IF zret = Z_OK
                THEN << deflateInit2(strm, level, method, windowBits, memLevel, strategy) >>
                ELSE << deflateInit2(strm, level, method, windowBits, memLevel, strategy),
                        [fn |-> "deflateEnd", strm |-> strm] >>,
     loads  |-> {},
     stores |-> << >>,
     ret    |-> zret]

\* src line 19-26
CNIOExtrasZlib_deflateInit2(strm, level, method, windowBits, memLevel, strategy, zret) ==
    [calls  |-> << deflateInit2(strm, level, method, windowBits, memLevel, strategy) >>,
     loads  |-> {},
     stores |-> << >>,
     ret    |-> zret]

Mut_inflateInit2_MasksErrors(strm, windowBits, zret) ==
    [calls  |-> << inflateInit2(strm, windowBits) >>,
     loads  |-> {},
     stores |-> << >>,
     ret    |-> IF zret = Z_VERSION_ERROR THEN Z_OK ELSE zret]

Mut_inflateInit2_InitOnce(strm, windowBits, zret) ==
    IF \E i \in 1..Len(history) : history[i].fn = "CNIOExtrasZlib_inflateInit2"
    THEN [calls |-> << >>, loads |-> {}, stores |-> << >>, ret |-> Z_OK]
    ELSE [calls  |-> << inflateInit2(strm, windowBits) >>,
          loads  |-> {},
          stores |-> << >>,
          ret    |-> zret]

Mut_inflateInit2_NullCheck(strm, windowBits, zret) ==
    [calls  |-> IF strm = Z_NULL THEN << >> ELSE << inflateInit2(strm, windowBits) >>,
     loads  |-> {},
     stores |-> << >>,
     ret    |-> IF strm = Z_NULL THEN Z_STREAM_ERROR ELSE zret]

\* src line 28-30
CNIOExtrasZlib_inflateInit2(strm, windowBits, zret) ==
    [calls  |-> << inflateInit2(strm, windowBits) >>,
     loads  |-> {},
     stores |-> << >>,
     ret    |-> zret]

\* A pointer is an address with the type of the object it designates.
VoidPtr(a) == [addr |-> a, type |-> "void"]

Mut_voidPtr_to_BytefPtr_OffByOne(in) ==
    [calls  |-> << >>,
     loads  |-> {},
     stores |-> << >>,
     ret    |-> [addr |-> in.addr + 1, type |-> "Bytef"]]

\* src line 32-34: the cast changes the pointer's type and keeps its address.
CNIOExtrasZlib_voidPtr_to_BytefPtr(in) ==
    [calls  |-> << >>,
     loads  |-> {},
     stores |-> << >>,
     ret    |-> [addr |-> in.addr, type |-> "Bytef"]]

\* ------------------------------------------------------------- actions

\* What one call into the shim did: the function and the caller's arguments,
\* the zlib calls its body made and what zlib returned to each, the body's
\* own loads and stores, the streams before and after, and the value handed
\* to the caller.
Entry(fn, args, body, zret, before, after) ==
    [fn     |-> fn,
     args   |-> args,
     calls  |-> body.calls,
     zrets  |-> [i \in 1..Len(body.calls) |-> zret],
     loads  |-> body.loads,
     stores |-> body.stores,
     before |-> before,
     after  |-> after,
     ret    |-> body.ret]

\* The streams after a body ran: zlib's calls, then the body's own stores.
Run(m, body, zret) == Store(ZlibRun(m, body.calls, zret), body.stores)

Init ==
    /\ mem = [a \in 1..MaxStreams |-> "Z_NULL"]
    /\ history = << >>

DeflateInit2 ==
    /\ Len(history) < MaxCalls
    /\ \E strm \in Addrs, level \in Levels, method \in Methods,
          windowBits \in WindowBitsSet, memLevel \in MemLevels,
          strategy \in Strategies :
         \E zret \in ZlibResults(strm) :
           LET body == CNIOExtrasZlib_deflateInit2(strm, level, method, windowBits, memLevel, strategy, zret)
           IN  /\ mem' = Run(mem, body, zret)
               /\ history' = Append(history,
                     Entry("CNIOExtrasZlib_deflateInit2",
                           [strm |-> strm, level |-> level, method |-> method,
                            windowBits |-> windowBits, memLevel |-> memLevel,
                            strategy |-> strategy],
                           body, zret, mem, mem'))

InflateInit2 ==
    /\ Len(history) < MaxCalls
    /\ \E strm \in Addrs, windowBits \in WindowBitsSet :
         \E zret \in ZlibResults(strm) :
           LET body == CNIOExtrasZlib_inflateInit2(strm, windowBits, zret)
           IN  /\ mem' = Run(mem, body, zret)
               /\ history' = Append(history,
                     Entry("CNIOExtrasZlib_inflateInit2",
                           [strm |-> strm, windowBits |-> windowBits],
                           body, zret, mem, mem'))

VoidPtrToBytefPtr ==
    /\ Len(history) < MaxCalls
    /\ \E a \in Addrs :
         LET body == CNIOExtrasZlib_voidPtr_to_BytefPtr(VoidPtr(a))
         IN  /\ mem' = Run(mem, body, Z_OK)
             /\ history' = Append(history,
                   Entry("CNIOExtrasZlib_voidPtr_to_BytefPtr",
                         [in |-> VoidPtr(a)], body, Z_OK, mem, mem'))

Next ==
    \/ DeflateInit2
    \/ InflateInit2
    \/ VoidPtrToBytefPtr

Spec == Init /\ [][Next]_vars

\* ------------------------------------------------------------- properties

Calls == 1..Len(history)
IsDeflate(e) == e.fn = "CNIOExtrasZlib_deflateInit2"
IsInflate(e) == e.fn = "CNIOExtrasZlib_inflateInit2"
IsCast(e) == e.fn = "CNIOExtrasZlib_voidPtr_to_BytefPtr"

\* C1: whatever result code zlib's deflateInit2 gives the call that
\* CNIOExtrasZlib_deflateInit2 makes for the caller's arguments, success or
\* error, is the value the wrapper returns.
C1_DeflateReturnsZlibResult ==
    \A i \in Calls :
        IsDeflate(history[i]) =>
            /\ Len(history[i].calls) >= 1
            /\ history[i].calls[1].fn = "deflateInit2"
            /\ history[i].ret = history[i].zrets[1]

\* C1 witness: one deflate call returned zlib's Z_MEM_ERROR and another
\* returned zlib's Z_OK.
C1_Witness ==
    /\ \E i \in Calls : /\ IsDeflate(history[i])
                        /\ history[i].zrets = << Z_MEM_ERROR >>
                        /\ history[i].ret = Z_MEM_ERROR
    /\ \E i \in Calls : /\ IsDeflate(history[i])
                        /\ history[i].zrets = << Z_OK >>
                        /\ history[i].ret = Z_OK

\* C2: whatever result code zlib's inflateInit2 gives the call that
\* CNIOExtrasZlib_inflateInit2 makes for (strm, windowBits) is the value the
\* wrapper returns.
C2_InflateReturnsZlibResult ==
    \A i \in Calls :
        IsInflate(history[i]) =>
            /\ Len(history[i].calls) >= 1
            /\ history[i].calls[1].fn = "inflateInit2"
            /\ history[i].ret = history[i].zrets[1]

\* C2 witness: one inflate call returned zlib's Z_VERSION_ERROR and another
\* returned zlib's Z_STREAM_ERROR.
C2_Witness ==
    /\ \E i \in Calls : /\ IsInflate(history[i])
                        /\ history[i].zrets = << Z_VERSION_ERROR >>
                        /\ history[i].ret = Z_VERSION_ERROR
    /\ \E i \in Calls : /\ IsInflate(history[i])
                        /\ history[i].zrets = << Z_STREAM_ERROR >>
                        /\ history[i].ret = Z_STREAM_ERROR

\* C3: the level, method, windowBits, memLevel and strategy that zlib's
\* deflateInit2 receives are the caller's, each in its own position.
C3_DeflateForwardsTuning ==
    \A i \in Calls :
        IsDeflate(history[i]) =>
            /\ Len(history[i].calls) >= 1
            /\ history[i].calls[1].level = history[i].args.level
            /\ history[i].calls[1].method = history[i].args.method
            /\ history[i].calls[1].windowBits = history[i].args.windowBits
            /\ history[i].calls[1].memLevel = history[i].args.memLevel
            /\ history[i].calls[1].strategy = history[i].args.strategy

\* C3 witness: a caller asked for raw deflate (negative windowBits) with the
\* default level (-1) and zlib received those same negative values.
C3_Witness ==
    \E i \in Calls :
        /\ IsDeflate(history[i])
        /\ history[i].args.windowBits < 0
        /\ history[i].args.level < 0
        /\ history[i].calls[1].windowBits = history[i].args.windowBits
        /\ history[i].calls[1].level = history[i].args.level

\* C4: CNIOExtrasZlib_voidPtr_to_BytefPtr returns a Bytef pointer to the
\* address it was given (null included), makes no zlib call, dereferences
\* nothing, stores nothing and leaves every stream as it was.
C4_CastIsIdentityOnAddresses ==
    \A i \in Calls :
        IsCast(history[i]) =>
            /\ history[i].ret.addr = history[i].args.in.addr
            /\ history[i].ret.type = "Bytef"
            /\ history[i].calls = << >>
            /\ history[i].loads = {}
            /\ history[i].stores = << >>
            /\ history[i].after = history[i].before

\* C4 witness: the address of a stream that zlib had initialised was cast,
\* and the stream is still as zlib left it.
C4_Witness ==
    \E i \in Calls :
        /\ IsCast(history[i])
        /\ history[i].args.in.addr # Z_NULL
        /\ history[i].before[history[i].args.in.addr] = "deflate"
        /\ history[i].ret.addr = history[i].args.in.addr
        /\ mem[history[i].args.in.addr] = "deflate"

\* C5: each call of a wrapper makes exactly one call into zlib, the
\* initialisation call (no retry, no deflateEnd or inflateEnd), performs no
\* store of its own, and leaves the streams as that one zlib call left them.
C5_NoErrorRecovery ==
    \A i \in Calls :
        (IsDeflate(history[i]) \/ IsInflate(history[i])) =>
            /\ Len(history[i].calls) = 1
            /\ history[i].calls[1].fn = (IF IsDeflate(history[i]) THEN "deflateInit2" ELSE "inflateInit2")
            /\ history[i].stores = << >>
            /\ history[i].after = ZlibLeaves(history[i].before, history[i].calls[1], history[i].zrets[1])

\* C5 witness: zlib failed with Z_MEM_ERROR on a stream that held a state,
\* left it without one, and the wrapper left it so.
C5_Witness ==
    \E i \in Calls :
        /\ IsDeflate(history[i]) \/ IsInflate(history[i])
        /\ history[i].zrets = << Z_MEM_ERROR >>
        /\ history[i].before[history[i].args.strm] # "Z_NULL"
        /\ history[i].after[history[i].args.strm] = "Z_NULL"
        /\ mem = history[i].after

\* C6: two calls of the same function with the same arguments hand zlib the
\* same argument lists, and, when zlib answers them alike, return the same
\* value: nothing of an earlier call is remembered.
C6_Stateless ==
    \A i, j \in Calls :
        (history[i].fn = history[j].fn /\ history[i].args = history[j].args) =>
            /\ history[i].calls = history[j].calls
            /\ (history[i].zrets = history[j].zrets => history[i].ret = history[j].ret)

\* C6 witness: the same wrapper was called twice with the same arguments on
\* a stream, zlib answered Z_OK and then Z_VERSION_ERROR, and it received the
\* same argument list both times.
C6_Witness ==
    /\ Len(history) >= 2
    /\ IsDeflate(history[1]) \/ IsInflate(history[1])
    /\ history[1].fn = history[2].fn
    /\ history[1].args = history[2].args
    /\ history[1].args.strm # Z_NULL
    /\ history[1].ret = Z_OK
    /\ history[2].ret = Z_VERSION_ERROR
    /\ history[1].calls = history[2].calls

\* C7: the z_streamp that zlib receives from either wrapper is the caller's
\* own, null included, and CNIOExtrasZlib_inflateInit2 passes the caller's
\* windowBits whatever its sign.
C7_ForwardsCallersStream ==
    \A i \in Calls :
        /\ (IsDeflate(history[i]) \/ IsInflate(history[i])) =>
               /\ Len(history[i].calls) >= 1
               /\ history[i].calls[1].strm = history[i].args.strm
        /\ IsInflate(history[i]) =>
               history[i].calls[1].windowBits = history[i].args.windowBits

\* C7 witness: both wrappers were called with a null stream, zlib received
\* null and its Z_STREAM_ERROR came back; the inflate call had a negative
\* windowBits.
C7_Witness ==
    /\ \E i \in Calls : /\ IsDeflate(history[i])
                        /\ history[i].args.strm = Z_NULL
                        /\ history[i].calls[1].strm = Z_NULL
                        /\ history[i].ret = Z_STREAM_ERROR
    /\ \E i \in Calls : /\ IsInflate(history[i])
                        /\ history[i].args.strm = Z_NULL
                        /\ history[i].args.windowBits < 0
                        /\ history[i].calls[1].strm = Z_NULL
                        /\ history[i].calls[1].windowBits = history[i].args.windowBits
                        /\ history[i].ret = Z_STREAM_ERROR

====
